---- MODULE Spec2Model ----
(***************************************************************************)
(* lark-message-watcher (src/src/main.py): a Feishu/Lark long-connection   *)
(* client that matches the text of group messages against MATCH_PATTERN    *)
(* and runs SCRIPT_COMMAND in a bash child, announcing the start in the    *)
(* originating chat.                                                       *)
(*                                                                         *)
(* Strings that the code inspects character by character (message text,   *)
(* the regular expression) are sequences of one-character strings;         *)
(* identifiers (chat id, message id, open id) are plain strings.           *)
(***************************************************************************)
EXTENDS Integers, Sequences, FiniteSets, TLC

\* ------------------------------------------------------------------------
\* Bounds of the model
\* ------------------------------------------------------------------------

\* how many children left behind by earlier _run_script calls are tracked
MaxOrphans == 1

\* ------------------------------------------------------------------------
\* Python values
\* ------------------------------------------------------------------------

\* Python's None where the code passes it as an identifier (line 165)
PyNone == "<None>"

\* a decoded JSON value: str (s), number (n), null, bool (n = 1 is true),
\* list (of n elements)
JStr(s) == [t |-> "str", s |-> s, n |-> 0]
JNum(n) == [t |-> "num", s |-> <<>>, n |-> n]
JNull == [t |-> "null", s |-> <<>>, n |-> 0]
JBool(b) == [t |-> "bool", s |-> <<>>, n |-> IF b THEN 1 ELSE 0]
JList(n) == [t |-> "list", s |-> <<>>, n |-> n]

\* Python truthiness (`not text`, `x or ""`)
Truthy(v) ==
    CASE v.t = "str" -> v.s # <<>>
      [] v.t = "num" -> v.n # 0
      [] v.t = "null" -> FALSE
      [] v.t = "bool" -> v.n = 1
      [] v.t = "list" -> v.n > 0

\* `x or ""` on an identifier (lines 70-72)
OrEmpty(id) == IF id = PyNone \/ id = "" THEN "" ELSE id

\* ------------------------------------------------------------------------
\* Regular expressions: re.compile(MATCH_PATTERN) and pattern.search(text)
\* ------------------------------------------------------------------------

\* r"^/run\\s+.+", the default of os.getenv("MATCH_PATTERN", ...): in a raw
\* string literal both backslashes are characters of the pattern
DefaultPattern == <<"^", "/", "r", "u", "n", "\\", "\\", "s", "+", ".", "+">>

\* the pattern the documentation gives, ^/run\s+.+ (MATCH_PATTERN set to it)
DocPattern == <<"^", "/", "r", "u", "n", "\\", "s", "+", ".", "+">>

\* further MATCH_PATTERN settings: b+ (unanchored), run\s.+ (unanchored)
PatternBs == <<"b", "+">>
PatternRunWs == <<"r", "u", "n", "\\", "s", ".", "+">>

\* the values MATCH_PATTERN takes in the model; <<>> stands for "unset"
PatternSettings == {<<>>, DocPattern, PatternBs, PatternRunWs}

\* os.getenv("MATCH_PATTERN", default)
MATCH_PATTERN(setting) == IF setting = <<>> THEN DefaultPattern ELSE setting

\* one item of a compiled pattern: kind "bol" (^), "lit" (character ch),
\* "ws" (\s), "any" (.), with plus = TRUE for a greedy + after it
Item(kind, ch, plus) == [kind |-> kind, ch |-> ch, plus |-> plus]

\* the atom that starts at p[i] and the number of pattern characters it takes
AtomAt(p, i) ==
    IF p[i] = "^" THEN <<"bol", "", 1>>
    ELSE IF p[i] = "." THEN <<"any", "", 1>>
    ELSE IF p[i] = "\\" /\ i < Len(p)
         THEN IF p[i + 1] = "s" THEN <<"ws", "", 2>>
              ELSE <<"lit", p[i + 1], 2>>
    ELSE <<"lit", p[i], 1>>

RECURSIVE CompileFrom(_, _)
CompileFrom(p, i) ==
    IF i > Len(p) THEN <<>>
    ELSE LET a == AtomAt(p, i)
             j == i + a[3]
             plus == j <= Len(p) /\ p[j] = "+" /\ a[1] # "bol"
         IN <<Item(a[1], a[2], plus)>> \o CompileFrom(p, IF plus THEN j + 1 ELSE j)

\* re.compile
Compile(p) == CompileFrom(p, 1)

\* the characters \s matches
Whitespace == {" ", "\t", "\n", "\r", "\f"}

\* does the item accept character c ('.' takes anything but a newline)
Accepts(it, c) ==
    CASE it.kind = "lit" -> c = it.ch
      [] it.kind = "ws" -> c \in Whitespace
      [] it.kind = "any" -> c # "\n"
      [] it.kind = "bol" -> FALSE

\* the length of the run of characters from s[i] on that the item accepts
RECURSIVE RunLen(_, _, _)
RunLen(it, s, i) ==
    IF i <= Len(s) /\ Accepts(it, s[i]) THEN 1 + RunLen(it, s, i + 1) ELSE 0

\* The backtracking matcher: the position after the match of items[k..] that
\* starts at s[i], found in the order the engine tries (a greedy + tries the
\* longest run first), or -1 when there is none.
RECURSIVE MatchAt(_, _, _, _)
RECURSIVE TryCounts(_, _, _, _, _)
MatchAt(items, k, s, i) ==
    IF k > Len(items) THEN i
    ELSE LET it == items[k] IN
         IF it.kind = "bol"
         THEN IF i = 1 THEN MatchAt(items, k + 1, s, i) ELSE -1
         ELSE IF it.plus
         THEN TryCounts(items, k, s, i, RunLen(it, s, i))
         ELSE IF i <= Len(s) /\ Accepts(it, s[i])
         THEN MatchAt(items, k + 1, s, i + 1)
         ELSE -1

TryCounts(items, k, s, i, c) ==
    IF c < 1 THEN -1
    ELSE LET e == MatchAt(items, k + 1, s, i + c)
         IN IF e # -1 THEN e ELSE TryCounts(items, k, s, i, c - 1)

\* pattern.search(text): the leftmost start at which the pattern matches;
\* [found, start, end) with s[start .. end-1] the match, i.e. group(0)
RECURSIVE SearchFrom(_, _, _)
SearchFrom(items, s, i) ==
    IF i > Len(s) + 1 THEN [found |-> FALSE, start |-> 0, end |-> 0]
    ELSE LET e == MatchAt(items, 1, s, i)
         IN IF e # -1 THEN [found |-> TRUE, start |-> i, end |-> e]
            ELSE SearchFrom(items, s, i + 1)

Search(items, s) == SearchFrom(items, s, 1)

\* mutant of Group0: the whole text instead of the matched span
Group0WholeText(s, m) == s

\* matched.group(0)
Group0(s, m) == SubSeq(s, m.start, m.end - 1)

\* ------------------------------------------------------------------------
\* Inbound events
\* ------------------------------------------------------------------------

\* message.content as the transport delivers it, by the form of the string:
\*   "none"    content is None            "empty"   the string ""
\*   "invalid" not a JSON document        "value"   JSON, not an object (val)
\*   "object"  a JSON object; hasText says whether it has a "text" member,
\*             val is that member's value
Payload(form, hasText, val) == [form |-> form, hasText |-> hasText, val |-> val]

T_hello == <<"h", "e", "l", "l", "o">>
T_run_build_now ==
    <<"/", "r", "u", "n", " ", "b", "u", "i", "l", "d", " ", "n", "o", "w">>
T_run_backslash == <<"/", "r", "u", "n", "\\", "s", "s", " ", "x">>
T_run_2sp == <<"/", "r", "u", "n", " ", " ">>
T_run_1sp == <<"/", "r", "u", "n", " ">>
T_mid_run == <<"a", " ", "r", "u", "n", "\t", "b", "\n", "c">>
T_abbab == <<"a", "b", "b", "a", "b">>

Texts == {<<>>, T_hello, T_run_build_now, T_run_backslash, T_run_2sp,
          T_run_1sp, T_mid_run, T_abbab}

NonStringValues == {JNum(0), JNum(5), JNull, JBool(TRUE), JList(0), JList(1)}

Payloads ==
    {Payload("none", FALSE, JNull), Payload("empty", FALSE, JNull),
     Payload("invalid", FALSE, JNull), Payload("object", FALSE, JNull)}
    \cup {Payload("value", FALSE, v) :
            v \in {JNull, JNum(5), JList(1), JStr(T_run_build_now)}}
    \cup {Payload("object", TRUE, JStr(t)) : t \in Texts}
    \cup {Payload("object", TRUE, v) : v \in NonStringValues}

\* data: kind "noevent" (data.event missing), "nomessage" (event.message
\* missing) or "message"
Event(kind, chat_type, chat_id, hasSender, content) ==
    [kind |-> kind, chat_type |-> chat_type, chat_id |-> chat_id,
     message_id |-> "om_1", hasSender |-> hasSender, open_id |-> "ou_1",
     content |-> content]

\* the same event with message.message_id = mid
WithMessageId(ev, mid) == [ev EXCEPT !.message_id = mid]

\* group messages in which message.chat_id or message.message_id is None
EventsWithNone ==
    {WithMessageId(Event("message", "group", ci, hs, Payload("object", TRUE, JStr(t))),
                   mid) :
        ci \in {PyNone, "oc_1"}, mid \in {PyNone, "om_1"}, hs \in BOOLEAN,
        t \in {T_run_backslash, T_abbab}}

Events ==
    {Event(k, "group", "oc_1", FALSE, Payload("none", FALSE, JNull)) :
        k \in {"noevent", "nomessage"}}
    \cup {Event("message", ct, ci, hs, c) :
            ct \in {"group", "p2p"}, ci \in {"", "oc_1"},
            hs \in BOOLEAN, c \in Payloads}
    \cup EventsWithNone

\* ------------------------------------------------------------------------
\* _extract_text
\* ------------------------------------------------------------------------

Returned(v) == [raised |-> FALSE, exc |-> "", val |-> v]
Raised(e) == [raised |-> TRUE, exc |-> e, val |-> JNull]

\* json.loads(content_raw): the decoded document, or JSONDecodeError
JsonLoads(c) ==
    IF c.form \in {"value", "object"}
    THEN [ok |-> TRUE, isObject |-> c.form = "object",
          hasText |-> c.form = "object" /\ c.hasText, val |-> c.val]
    ELSE [ok |-> FALSE, isObject |-> FALSE, hasText |-> FALSE, val |-> JNull]

\* content.get("text", ""): only a dict has .get
GetText(doc) ==
    IF ~doc.isObject THEN Raised("AttributeError")
    ELSE IF doc.hasText THEN Returned(doc.val)
    ELSE Returned(JStr(<<>>))

\* _extract_text(message.content or "")
ExtractText(c) ==
    IF c.form \in {"none", "empty"} THEN Returned(JStr(<<>>))
    ELSE LET doc == JsonLoads(c)
         IN IF ~doc.ok THEN Returned(JStr(<<>>)) ELSE GetText(doc)

\* ------------------------------------------------------------------------
\* _handle_message_event up to the call of _run_script
\* ------------------------------------------------------------------------

Trigger(mid, cid, sid, text, matched) ==
    [message_id |-> mid, chat_id |-> cid, sender_id |-> sid, text |-> text,
     matched_text |-> matched]

NoTrigger == Trigger(PyNone, PyNone, PyNone, <<>>, <<>>)

\* mutant of EligibleChat: the chat_type check is missing
EligibleChatAny(chat_type) == TRUE

\* message.chat_type != "group" (line 129), negated
EligibleChat(chat_type) == chat_type = "group"

\* notify_payload (lines 162-168)
BuildTrigger(ev, text, m) ==
    Trigger(ev.message_id, ev.chat_id,
            IF ev.hasSender THEN ev.open_id ELSE PyNone,
            text, Group0(text, m))

Verdict(kind, exc, trigger, logs) ==
    [kind |-> kind, exc |-> exc, trigger |-> trigger, logs |-> logs]

\* lines 123-168: "ignored" (no event or message), "nomatch" (silent return),
\* "raise" (an exception leaves the handler), "match" (the trigger is built)
Evaluate(ev, items) ==
    IF ev.kind # "message" THEN Verdict("ignored", "", NoTrigger, {})
    ELSE IF ~EligibleChat(ev.chat_type)
    THEN LET preview == ExtractText(ev.content) IN
         IF preview.raised THEN Verdict("raise", preview.exc, NoTrigger, {})
         ELSE Verdict("nomatch", "", NoTrigger, {"DEBUG:received"})
    ELSE LET x == ExtractText(ev.content) IN
         IF x.raised THEN Verdict("raise", x.exc, NoTrigger, {})
         ELSE IF ~Truthy(x.val)
         THEN Verdict("nomatch", "", NoTrigger, {"DEBUG:received"})
         ELSE IF x.val.t # "str"
         THEN Verdict("raise", "TypeError", NoTrigger, {"DEBUG:received"})
         ELSE LET m == Search(items, x.val.s) IN
              IF ~m.found
              THEN Verdict("nomatch", "", NoTrigger, {"DEBUG:received"})
              ELSE Verdict("match", "", BuildTrigger(ev, x.val.s, m),
                           {"DEBUG:received", "INFO:matched"})

\* ------------------------------------------------------------------------
\* _run_script: the child's environment
\* ------------------------------------------------------------------------

\* the names of the five keys
TriggerKeys ==
    {"TRIGGER_TEXT", "TRIGGER_CHAT_ID", "TRIGGER_SENDER_ID",
     "TRIGGER_MESSAGE_ID", "TRIGGER_MATCHED_TEXT"}

\* mutant of ChildEnv: a key is set only when its field is not empty
ChildEnvSkipsEmpty(tr) ==
    LET ids == [TRIGGER_CHAT_ID |-> tr.chat_id,
                TRIGGER_SENDER_ID |-> tr.sender_id,
                TRIGGER_MESSAGE_ID |-> tr.message_id]
        texts == [TRIGGER_TEXT |-> tr.text,
                  TRIGGER_MATCHED_TEXT |-> tr.matched_text]
        kept == {k \in DOMAIN ids : ids[k] \notin {PyNone, ""}}
                  \cup {k \in DOMAIN texts : texts[k] # <<>>}
    IN [k \in kept |-> IF k \in DOMAIN ids THEN ids[k] ELSE texts[k]]

\* the five keys _run_script adds to the copy of os.environ (lines 69-73)
ChildEnv(tr) ==
    [TRIGGER_TEXT |-> tr.text,
     TRIGGER_CHAT_ID |-> OrEmpty(tr.chat_id),
     TRIGGER_SENDER_ID |-> OrEmpty(tr.sender_id),
     TRIGGER_MESSAGE_ID |-> OrEmpty(tr.message_id),
     TRIGGER_MATCHED_TEXT |-> tr.matched_text]

NoEnv == ChildEnv(NoTrigger)

\* os.environ when the watcher starts: what the shell and .env have set,
\* here with a TRIGGER_SENDER_ID left over in the shell
HostEnv0 == [PATH |-> "/usr/bin", TRIGGER_SENDER_ID |-> "ou_stale"]

\* env = os.environ.copy() followed by the five assignments (lines 68-73):
\* what Popen gets as env=
BuildEnv(host, tr) ==
    [k \in DOMAIN host \cup DOMAIN ChildEnv(tr) |->
        IF k \in DOMAIN ChildEnv(tr) THEN ChildEnv(tr)[k] ELSE host[k]]

\* mutant of HostAfter: the assignments go to os.environ itself
HostAfterNoCopy(host, tr) == BuildEnv(host, tr)

\* os.environ after lines 68-73: the assignments went to the copy
HostAfter(host, tr) == host

\* ------------------------------------------------------------------------
\* State
\* ------------------------------------------------------------------------

VARIABLES
    missing,    \* the required settings that are empty at startup
    hostEnv,    \* os.environ of the watcher
    fatal,      \* the names in the RuntimeError of _validate_env
    setting,    \* MATCH_PATTERN as set in the environment (<<>>: unset)
    watcher,    \* "init", "serving", "failed" (RuntimeError), "exited"
    pc,         \* where the handler is: "idle", "launch", "spawned",
                \* "waiting", "killing", "draining"
    msg,        \* the event being (or last) handled
    trigger,    \* notify_payload of the event
    child,      \* the Popen of this call: "none", "running", "exited", "killed"
    childEnv,   \* env= of the Popen
    exitInfo,   \* what the child left: returncode, stdout, stderr
    holders,    \* descendants of the child hold its output pipes open
    orphans,    \* children of earlier calls that are still running
    hist        \* what handling this event has done so far

vars == <<missing, hostEnv, fatal, setting, watcher, pc, msg, trigger, child, childEnv,
          exitInfo, holders, orphans, hist>>

Required == {"FEISHU_APP_ID", "FEISHU_APP_SECRET", "SCRIPT_COMMAND"}

\* the order in which _validate_env looks at them (lines 205-210)
RequiredOrder == <<"FEISHU_APP_ID", "FEISHU_APP_SECRET", "SCRIPT_COMMAND">>

\* mutant of MissingKeys: the error is raised at the first missing setting
MissingKeysFirstOnly(m) ==
    LET all == SelectSeq(RequiredOrder, LAMBDA k : k \in m)
    IN IF all = <<>> THEN <<>> ELSE <<Head(all)>>

\* the list `missing` of _validate_env (lines 204-210)
MissingKeys(m) == SelectSeq(RequiredOrder, LAMBDA k : k \in m)

\* what a command may leave: exit code, stdout, stderr
ExitInfo(rc, out, err) == [returncode |-> rc, stdout |-> out, stderr |-> err]

\* no exit yet (process.returncode is None)
NoExit == ExitInfo(-1, "", "")


\* per event: matched (a trigger was built), spawns (Popen calls that made a
\* child), started (on_started calls), notifies (_send_text_to_chat calls),
\* sends (message.create calls), sendResult (the transport's answer: "none",
\* "ok", "rejected", "raised"), results / timeouts / failures (how many
\* ExecutionResults, TimeoutExpired and other exceptions _run_script handed
\* to the handler), outcome (how the handler ended: "none" while in
\* progress, "ignored", "nomatch", "escaped", "result", "timeout", "failed"),
\* exc (the exception that escaped or was caught), result, logs, launches
\* (Popen calls, failed ones included), sent (the messages handed to
\* message.create: chat and text)
NoHist ==
    [matched |-> FALSE, spawns |-> 0, started |-> 0, notifies |-> 0,
     sends |-> 0, sendResult |-> "none", results |-> 0, timeouts |-> 0,
     failures |-> 0, outcome |-> "none", exc |-> "", result |-> NoExit,
     logs |-> {}, launches |-> 0, sent |-> <<>>]

NoEventYet == Event("noevent", "group", "oc_1", FALSE, Payload("none", FALSE, JNull))

Init ==
    /\ missing \in SUBSET Required
    /\ hostEnv = HostEnv0
    /\ fatal = <<>>
    /\ setting \in PatternSettings
    /\ watcher = "init"
    /\ pc = "idle"
    /\ msg = NoEventYet
    /\ trigger = NoTrigger
    /\ child = "none"
    /\ childEnv = NoEnv
    /\ exitInfo = NoExit
    /\ holders = FALSE
    /\ orphans = 0
    /\ hist = NoHist

\* _compiled_pattern (line 51)
CompiledPattern == Compile(MATCH_PATTERN(setting))

\* ------------------------------------------------------------------------
\* Startup: main
\* ------------------------------------------------------------------------

\* _validate_env and ws_client.start(): RuntimeError when a required setting
\* is empty, otherwise the signal handlers are installed and events are served
Main ==
    /\ watcher = "init"
    /\ fatal' = MissingKeys(missing)
    /\ watcher' = IF fatal' # <<>> THEN "failed" ELSE "serving"
    /\ UNCHANGED <<missing, hostEnv, setting, pc, msg, trigger, child, childEnv,
                   exitInfo, holders, orphans, hist>>

\* ------------------------------------------------------------------------
\* _handle_message_event
\* ------------------------------------------------------------------------

\* how the handler ends for a verdict of the filter part
OutcomeOf(kind) ==
    CASE kind = "ignored" -> "ignored"
      [] kind = "nomatch" -> "nomatch"
      [] kind = "raise" -> "escaped"
      [] kind = "match" -> "none"

\* The dispatcher calls the handler with the next event (lines 122-168).  A
\* child that an earlier call left running is from now on an orphan.
Receive(ev) ==
    /\ watcher = "serving"
    /\ pc = "idle"
    /\ LET v == Evaluate(ev, CompiledPattern) IN
       /\ msg' = ev
       /\ trigger' = v.trigger
       /\ hist' = [NoHist EXCEPT !.matched = (v.kind = "match"),
                                 !.outcome = OutcomeOf(v.kind),
                                 !.exc = v.exc,
                                 !.logs = v.logs]
       /\ pc' = IF v.kind = "match" THEN "launch" ELSE "idle"
    /\ orphans' = IF child = "running" THEN orphans + 1 ELSE orphans
    /\ child' = "none"
    /\ childEnv' = NoEnv
    /\ exitInfo' = NoExit
    /\ holders' = FALSE
    /\ UNCHANGED <<missing, hostEnv, fatal, setting, watcher>>

\* mutant of CatchAll: the handler has no except Exception clause
CatchAllMissing(h, e) == [h EXCEPT !.outcome = "escaped", !.exc = e]

\* `except Exception:` of the handler (lines 181-183): logged, the handler
\* returns
CatchAll(h, e) ==
    [h EXCEPT !.failures = @ + 1, !.outcome = "failed", !.exc = e,
              !.logs = @ \cup {"ERROR:failed"}]

\* mutant of CatchTimeout: the handler tells the chat about the timeout
CatchTimeoutNotifies(h) ==
    [h EXCEPT !.timeouts = @ + 1, !.outcome = "timeout",
              !.exc = "TimeoutExpired", !.logs = @ \cup {"ERROR:timed_out"},
              !.sends = @ + 1,
              !.sent = Append(@, [chat |-> "oc_1",
                                  text |-> <<"Script timed out", "">>])]

\* `except subprocess.TimeoutExpired:` of the handler (lines 178-180)
CatchTimeout(h) ==
    [h EXCEPT !.timeouts = @ + 1, !.outcome = "timeout",
              !.exc = "TimeoutExpired", !.logs = @ \cup {"ERROR:timed_out"}]

\* lines 185-189: the result is logged
LogResult(h, r) ==
    [h EXCEPT !.results = @ + 1, !.outcome = "result", !.result = r,
              !.logs = @ \cup {"INFO:finished"}
                         \cup (IF r.stdout # "" THEN {"INFO:stdout"} ELSE {})
                         \cup (IF r.stderr # "" THEN {"WARNING:stderr"} ELSE {})]

\* ------------------------------------------------------------------------
\* _run_script
\* ------------------------------------------------------------------------

\* mutant of PopenOk: the wait begins right after the spawn, before the
\* start callback
PopenOkThenWait ==
    /\ watcher = "serving"
    /\ pc = "launch"
    /\ child' = "running"
    /\ childEnv' = BuildEnv(hostEnv, trigger)
    /\ hostEnv' = HostAfter(hostEnv, trigger)
    /\ holders' = FALSE
    /\ hist' = [hist EXCEPT !.spawns = @ + 1, !.launches = @ + 1]
    /\ pc' = "waiting"
    /\ UNCHANGED <<missing, fatal, setting, watcher, msg, trigger, exitInfo,
                   orphans>>

\* subprocess.Popen(["bash", "-lc", SCRIPT_COMMAND], ...) starts the child
PopenOk ==
    /\ watcher = "serving"
    /\ pc = "launch"
    /\ child' = "running"
    /\ childEnv' = BuildEnv(hostEnv, trigger)
    /\ hostEnv' = HostAfter(hostEnv, trigger)
    /\ holders' = FALSE
    /\ hist' = [hist EXCEPT !.spawns = @ + 1, !.launches = @ + 1]
    /\ pc' = "spawned"
    /\ UNCHANGED <<missing, fatal, setting, watcher, msg, trigger, exitInfo,
                   orphans>>

\* mutant of PopenFails: the launch is tried again after a failure
PopenFailsRetries ==
    /\ watcher = "serving"
    /\ pc = "launch"
    /\ hist.launches < 2
    /\ hostEnv' = hostEnv
    /\ hist' = [hist EXCEPT !.launches = @ + 1]
    /\ pc' = "launch"
    /\ UNCHANGED <<missing, fatal, setting, watcher, msg, trigger, child,
                   childEnv, exitInfo, holders, orphans>>

\* subprocess.Popen raises (bash missing, fork refused): no child; the
\* exception passes through _run_script to the handler's except Exception
PopenFails ==
    /\ watcher = "serving"
    /\ pc = "launch"
    /\ hostEnv' = HostAfter(hostEnv, trigger)
    /\ hist' = CatchAll([hist EXCEPT !.launches = @ + 1], "OSError")
    /\ pc' = "idle"
    /\ UNCHANGED <<missing, fatal, setting, watcher, msg, trigger, child,
                   childEnv, exitInfo, holders, orphans>>

\* mutant of CallsOnStarted: the callback is never called
CallsOnStartedNever(given) == 0

\* `if on_started: on_started()` (lines 83-84): the number of calls made
CallsOnStarted(given) == IF given THEN 1 ELSE 0

\* the handler always passes a lambda (line 173)
OnStartedGiven == TRUE

\* on_started() has been entered: _send_text_to_chat(message.chat_id, ...)
Entered(h) ==
    [h EXCEPT !.started = @ + CallsOnStarted(OnStartedGiven),
              !.notifies = @ + CallsOnStarted(OnStartedGiven)]

\* mutant of ChatIdEmpty: the guard of lines 97-98 is missing
ChatIdEmptyNever(chat_id) == FALSE

\* `not chat_id` (line 97)
ChatIdEmpty(chat_id) == chat_id \in {"", PyNone}

\* f"Executing update script triggered by message {message.message_id}"
\* (line 175): the fixed part and the formatted id
StartText(mid) ==
    <<"Executing update script triggered by message ",
      IF mid = PyNone THEN "None" ELSE mid>>

\* _send_text_to_chat hands the request to message.create (lines 100-113),
\* which gives `answer`
Handed(h, ev, answer) ==
    [Entered(h) EXCEPT !.sends = @ + 1,
                       !.sendResult = answer,
                       !.sent = Append(@, [chat |-> ev.chat_id,
                                           text |-> StartText(ev.message_id)])]

\* `if not chat_id: return` (lines 97-98)
NotifySkipped ==
    /\ watcher = "serving"
    /\ pc = "spawned"
    /\ ChatIdEmpty(msg.chat_id)
    /\ hist' = Entered(hist)
    /\ pc' = "waiting"
    /\ UNCHANGED <<missing, hostEnv, fatal, setting, watcher, msg, trigger, child, childEnv,
                   exitInfo, holders, orphans>>

\* message.create answers with success (lines 113-114)
SendOk ==
    /\ watcher = "serving"
    /\ pc = "spawned"
    /\ ~ChatIdEmpty(msg.chat_id)
    /\ hist' = Handed(hist, msg, "ok")
    /\ pc' = "waiting"
    /\ UNCHANGED <<missing, hostEnv, fatal, setting, watcher, msg, trigger, child, childEnv,
                   exitInfo, holders, orphans>>

\* message.create answers with a failure code: a warning (lines 114-119)
SendRejected ==
    /\ watcher = "serving"
    /\ pc = "spawned"
    /\ ~ChatIdEmpty(msg.chat_id)
    /\ hist' = [Handed(hist, msg, "rejected")
                   EXCEPT !.logs = @ \cup {"WARNING:send_failed"}]
    /\ pc' = "waiting"
    /\ UNCHANGED <<missing, hostEnv, fatal, setting, watcher, msg, trigger, child, childEnv,
                   exitInfo, holders, orphans>>

\* message.create raises (no connection, no access token): nothing between
\* line 113 and the handler's except Exception catches it, so _run_script is
\* left before process.communicate and the child is neither waited for nor
\* killed
SendRaises ==
    /\ watcher = "serving"
    /\ pc = "spawned"
    /\ ~ChatIdEmpty(msg.chat_id)
    /\ orphans < MaxOrphans
    /\ hist' = CatchAll(Handed(hist, msg, "raised"), "TransportError")
    /\ pc' = "idle"
    /\ UNCHANGED <<missing, hostEnv, fatal, setting, watcher, msg, trigger, child, childEnv,
                   exitInfo, holders, orphans>>

\* process.communicate(timeout=...) returns: the child has exited and both
\* pipes are at end of file (lines 87, 93)
WaitReturns ==
    /\ watcher = "serving"
    /\ pc = "waiting"
    /\ child = "exited"
    /\ ~holders
    /\ hist' = LogResult(hist, exitInfo)
    /\ pc' = "idle"
    /\ UNCHANGED <<missing, hostEnv, fatal, setting, watcher, msg, trigger, child, childEnv,
                   exitInfo, holders, orphans>>

\* SCRIPT_TIMEOUT_SEC pass before communicate returns: TimeoutExpired
\* (line 88)
Timeout ==
    /\ watcher = "serving"
    /\ pc = "waiting"
    /\ pc' = "killing"
    /\ UNCHANGED <<missing, hostEnv, fatal, setting, watcher, msg, trigger, child, childEnv,
                   exitInfo, holders, orphans, hist>>

\* mutant of KillEffect: process.kill() is missing
KillNothing(c) == c

\* process.kill(): SIGKILL to the child unless it has already exited
KillEffect(c) == IF c = "running" THEN "killed" ELSE c

\* line 89
Kill ==
    /\ watcher = "serving"
    /\ pc = "killing"
    /\ child' = KillEffect(child)
    /\ pc' = "draining"
    /\ UNCHANGED <<missing, hostEnv, fatal, setting, watcher, msg, trigger, childEnv,
                   exitInfo, holders, orphans, hist>>

\* process.communicate() without a timeout returns once the child is gone and
\* the pipes are at end of file; `raise exc` then reaches the handler
\* (lines 90-91, 178-180)
Drain ==
    /\ watcher = "serving"
    /\ pc = "draining"
    /\ child # "running"
    /\ ~holders
    /\ hist' = CatchTimeout(hist)
    /\ pc' = "idle"
    /\ UNCHANGED <<missing, hostEnv, fatal, setting, watcher, msg, trigger, child, childEnv,
                   exitInfo, holders, orphans>>

\* ------------------------------------------------------------------------
\* The environment: the child, its descendants, signals
\* ------------------------------------------------------------------------

\* the exits of the command that the model draws from
Exits == {ExitInfo(0, "", ""), ExitInfo(0, "out", ""), ExitInfo(3, "", ""),
          ExitInfo(3, "out", "err")}

\* the bash child exits by itself
ChildExit(x) ==
    /\ child = "running"
    /\ child' = "exited"
    /\ exitInfo' = x
    /\ UNCHANGED <<missing, hostEnv, fatal, setting, watcher, pc, msg, trigger, childEnv,
                   holders, orphans, hist>>

\* SCRIPT_COMMAND starts a background process that inherits the pipes
Fork ==
    /\ child = "running"
    /\ ~holders
    /\ holders' = TRUE
    /\ UNCHANGED <<missing, hostEnv, fatal, setting, watcher, pc, msg, trigger, child,
                   childEnv, exitInfo, orphans, hist>>

\* the descendants exit (or close the pipes)
HoldersExit ==
    /\ holders
    /\ holders' = FALSE
    /\ UNCHANGED <<missing, hostEnv, fatal, setting, watcher, pc, msg, trigger, child,
                   childEnv, exitInfo, orphans, hist>>

\* a child left behind by an earlier call exits
OrphanExit ==
    /\ orphans > 0
    /\ orphans' = orphans - 1
    /\ UNCHANGED <<missing, hostEnv, fatal, setting, watcher, pc, msg, trigger, child,
                   childEnv, exitInfo, holders, hist>>

\* SIGINT or SIGTERM: _stop_handler calls sys.exit(0); SystemExit is no
\* Exception, so no except clause of the handler or of _run_script catches it
\* (lines 226-231)
Signal ==
    /\ watcher = "serving"
    /\ watcher' = "exited"
    /\ UNCHANGED <<missing, hostEnv, fatal, setting, pc, msg, trigger, child, childEnv,
                   exitInfo, holders, orphans, hist>>

Next ==
    \/ Main
    \/ \E ev \in Events : Receive(ev)
    \/ PopenOk
    \/ PopenFails
    \/ NotifySkipped
    \/ SendOk
    \/ SendRejected
    \/ SendRaises
    \/ WaitReturns
    \/ Timeout
    \/ Kill
    \/ Drain
    \/ \E x \in Exits : ChildExit(x)
    \/ Fork
    \/ HoldersExit
    \/ OrphanExit
    \/ Signal

Spec == Init /\ [][Next]_vars

\* The steps of the watcher's own thread are taken when they can be: the
\* interpreter goes on from one statement to the next, communicate returns
\* once the child is gone and the pipes are closed, and the timeout expires
\* while the wait lasts.  Nothing makes the child or its descendants exit.
FairSpec ==
    /\ Spec
    /\ WF_vars(PopenOk \/ PopenFails)
    /\ WF_vars(NotifySkipped \/ SendOk \/ SendRejected \/ SendRaises)
    /\ WF_vars(WaitReturns)
    /\ WF_vars(Timeout)
    /\ WF_vars(Kill)
    /\ WF_vars(Drain)

\* ------------------------------------------------------------------------
\* Properties
\* ------------------------------------------------------------------------

\* the handler has returned (or an exception has left it) for the event msg
HandlerDone == pc = "idle" /\ hist.outcome # "none"

\* _run_script has reached or passed process.communicate
WaitBegun == pc \in {"waiting", "killing", "draining"}

\* the event carries a JSON object whose "text" member is the string t
HasText(ev, t) ==
    /\ ev.kind = "message"
    /\ ev.content = Payload("object", TRUE, JStr(t))

\* All the positions at which a match of items[k..] that starts at s[i] can
\* end, whatever the order in which an engine tries them.
RECURSIVE Ends(_, _, _, _)
Ends(items, k, s, i) ==
    IF k > Len(items) THEN {i}
    ELSE LET it == items[k] IN
         IF it.kind = "bol"
         THEN IF i = 1 THEN Ends(items, k + 1, s, i) ELSE {}
         ELSE IF it.plus
         THEN UNION {Ends(items, k + 1, s, i + c) : c \in 1..RunLen(it, s, i)}
         ELSE IF i <= Len(s) /\ Accepts(it, s[i])
         THEN Ends(items, k + 1, s, i + 1)
         ELSE {}

\* the starts at which the pattern matches somewhere in s
Starts(items, s) == {i \in 1..(Len(s) + 1) : Ends(items, 1, s, i) # {}}

\* span is the first match span of an unanchored search over s: it starts at
\* the leftmost start and, the quantifiers being greedy, ends at the furthest
\* end from there
IsFirstSpan(items, s, span) ==
    /\ Starts(items, s) # {}
    /\ LET i == CHOOSE a \in Starts(items, s) : \A b \in Starts(items, s) : a <= b
           e == CHOOSE x \in Ends(items, 1, s, i) :
                    \A y \in Ends(items, 1, s, i) : y <= x
       IN span = SubSeq(s, i, e - 1)

\* C1: a message whose chat_type is not "group" spawns no child process,
\* makes no send attempt (the notifier is not even called) and builds no
\* trigger, whatever its content.
C1_NonGroupNoEffect ==
    (msg.kind = "message" /\ msg.chat_type # "group")
        => /\ hist.spawns = 0
           /\ hist.sends = 0
           /\ hist.notifies = 0
           /\ ~hist.matched
           /\ trigger = NoTrigger
           /\ child = "none"
           /\ pc = "idle"

\* C1 witness: a private message whose text the pattern matches was handled
\* and yielded no match.
C1_Witness ==
    /\ msg.chat_type = "p2p"
    /\ HasText(msg, T_run_build_now)
    /\ Search(CompiledPattern, T_run_build_now).found
    /\ hist.outcome = "nomatch"

\* C2 as stated: every matched trigger whose handling has ended produced
\* exactly one ExecutionResult or exactly one timeout failure.
C2_ResultOrTimeout ==
    (hist.matched /\ HandlerDone) => hist.results + hist.timeouts = 1

\* C2 amended: every matched trigger whose handling has returned produced
\* exactly one of an ExecutionResult, a timeout failure, or another failure
\* (the launch or the start callback raised) that the handler caught; never
\* two of them, and none without a trigger.
C2_ExactlyOneOutcome ==
    /\ hist.results + hist.timeouts + hist.failures <= 1
    /\ (hist.matched /\ HandlerDone)
          => /\ hist.results + hist.timeouts + hist.failures = 1
             /\ hist.results = 1 <=> hist.outcome = "result"
             /\ hist.timeouts = 1 <=> hist.outcome = "timeout"
             /\ hist.failures = 1 <=> hist.outcome = "failed"
    /\ ~hist.matched => hist.results + hist.timeouts + hist.failures = 0

\* C2 witness: the launch failed, and the handler returned with that failure
\* as the only outcome.
C2_Witness ==
    /\ hist.matched
    /\ HandlerDone
    /\ hist.exc = "OSError"
    /\ hist.failures = 1
    /\ hist.spawns = 0

\* C3 as stated: no exception raised while handling an event leaves
\* _handle_message_event.
C3_NothingEscapes == hist.outcome # "escaped"

\* the payloads of C4: no "text" member, the empty string, no JSON, JSON that
\* is no object, a "text" member that is no string
Malformed(c) ==
    \/ c.form \in {"empty", "invalid", "value"}
    \/ c.form = "object" /\ ~c.hasText
    \/ c.form = "object" /\ c.hasText /\ c.val.t # "str"

\* C4 as stated: for a payload without a usable text, extraction returns the
\* empty text without raising, and the message is a silent no-match.
C4_MalformedIsEmptyText ==
    (msg.kind = "message" /\ Malformed(msg.content) /\ pc = "idle")
        => /\ ExtractText(msg.content) = Returned(JStr(<<>>))
           /\ hist.outcome = "nomatch"

\* C5: on_started is called at most once per _run_script call, exactly once
\* by the time the wait begins, and so exactly once when the call has ended
\* with a result or with a timeout.
C5_OnStartedOnce ==
    /\ hist.started <= 1
    /\ WaitBegun => hist.started = 1
    /\ hist.outcome \in {"result", "timeout"} => hist.started = 1

\* C5 witness: a call that ended by timeout, with its one on_started call.
C5_Witness == hist.outcome = "timeout" /\ hist.started = 1

\* C6: the notifier has been called once for the trigger when the wait on the
\* child begins, and every call of the notifier and every send to the chat
\* happens after the child was spawned and before the wait begins.
C6_NotifyBeforeWait ==
    /\ [](WaitBegun => hist.notifies = 1 /\ hist.spawns = 1)
    /\ [][(hist'.sends > hist.sends \/ hist'.notifies > hist.notifies)
            => /\ pc = "spawned"
               /\ hist.spawns = 1
               /\ child # "none"
               /\ ~WaitBegun]_vars

\* C6 witness: the wait has begun on a running child, the start message sent.
C6_Witness ==
    pc = "waiting" /\ hist.sends = 1 /\ hist.sendResult = "ok" /\ child = "running"

\* C7: after the timeout the child is killed before the drain, and when
\* _run_script has raised TimeoutExpired to the handler the child is not
\* running and no result was produced.
C7_TimeoutKills ==
    /\ pc = "draining" => child \in {"killed", "exited"}
    /\ hist.outcome = "timeout"
          => /\ child \in {"killed", "exited"}
             /\ hist.exc = "TimeoutExpired"
             /\ hist.timeouts = 1
             /\ hist.results = 0

\* C7 witness: a child that was still running at the timeout was killed and
\* the handler got the timeout.
C7_Witness == hist.outcome = "timeout" /\ child = "killed"

\* C8 as stated: when the send of the start message fails, a warning is
\* logged, the send is not repeated, nothing is propagated to the caller of
\* _run_script, and the call goes on to wait and ends with a result or a
\* timeout.
C8_FailedSendHarmless ==
    hist.sendResult \in {"rejected", "raised"}
        => /\ "WARNING:send_failed" \in hist.logs
           /\ hist.sends = 1
           /\ hist.failures = 0
           /\ WaitBegun \/ hist.outcome \in {"result", "timeout"}

\* C9: a group message whose text the pattern matches somewhere builds a
\* trigger; the trigger of a matched message carries the message's ids and
\* text, and its matched_text is the first match span of the search over
\* that text.
C9_FirstMatchSpan ==
    /\ \A t \in Texts :
          (HasText(msg, t) /\ msg.chat_type = "group"
              /\ Starts(CompiledPattern, t) # {})
            => hist.matched
    /\ hist.matched
          => /\ msg.chat_type = "group"
             /\ HasText(msg, trigger.text)
             /\ trigger.message_id = msg.message_id
             /\ trigger.chat_id = msg.chat_id
             /\ trigger.sender_id = (IF msg.hasSender THEN msg.open_id ELSE PyNone)
             /\ IsFirstSpan(CompiledPattern, trigger.text, trigger.matched_text)

\* C9 witness: a trigger whose matched_text is a proper part of the text.
C9_Witness ==
    /\ hist.matched
    /\ trigger.matched_text # trigger.text
    /\ trigger.matched_text # <<>>

\* C10 as stated: with MATCH_PATTERN unset, the group text "/run build now"
\* matches as a whole and the child gets it as TRIGGER_MATCHED_TEXT, and the
\* group text "hello" matches nothing and spawns nothing.
C10_DefaultPatternScenarios ==
    (setting = <<>> /\ msg.chat_type = "group")
        => /\ HasText(msg, T_run_build_now)
                => /\ hist.matched
                   /\ trigger.matched_text = T_run_build_now
                   /\ hist.spawns = 1
                         => childEnv.TRIGGER_MATCHED_TEXT = T_run_build_now
           /\ HasText(msg, T_hello) => ~hist.matched /\ hist.spawns = 0

\* what the child must find under key k for the trigger tr: the field, or
\* the empty string when the field is None or empty
ExpectedVar(tr, k) ==
    CASE k = "TRIGGER_TEXT" -> tr.text
      [] k = "TRIGGER_MATCHED_TEXT" -> tr.matched_text
      [] k = "TRIGGER_CHAT_ID" ->
            IF tr.chat_id \in {PyNone, ""} THEN "" ELSE tr.chat_id
      [] k = "TRIGGER_SENDER_ID" ->
            IF tr.sender_id \in {PyNone, ""} THEN "" ELSE tr.sender_id
      [] k = "TRIGGER_MESSAGE_ID" ->
            IF tr.message_id \in {PyNone, ""} THEN "" ELSE tr.message_id

\* C11: the environment of every launched child has all five TRIGGER_* keys,
\* each with the trigger's field, or with the empty string when the field is
\* None or empty.
C11_AllFiveKeys ==
    hist.spawns = 1
        => \A k \in TriggerKeys :
              k \in DOMAIN childEnv /\ childEnv[k] = ExpectedVar(trigger, k)

\* C11 witness: a child launched for a trigger without sender and message id.
C11_Witness ==
    /\ hist.spawns = 1
    /\ trigger.sender_id = PyNone
    /\ trigger.message_id = PyNone
    /\ childEnv.TRIGGER_SENDER_ID = ""
    /\ childEnv.TRIGGER_MESSAGE_ID = ""

\* C12: when a required setting is missing, main fails with one error that
\* names exactly the missing settings, and no event is ever handled; events
\* are served only when none is missing.
C12_FailFast ==
    /\ watcher = "failed"
          => /\ missing # {}
             /\ {fatal[i] : i \in DOMAIN fatal} = missing
             /\ Len(fatal) = Cardinality(missing)
    /\ missing # {}
          => /\ watcher \in {"init", "failed"}
             /\ msg = NoEventYet
             /\ hist = NoHist
             /\ pc = "idle"
             /\ child = "none"
    /\ watcher \in {"serving", "exited"} => missing = {} /\ fatal = <<>>

\* C12 witness: startup failed with two settings missing, both named.
C12_Witness ==
    /\ watcher = "failed"
    /\ Cardinality(missing) = 2
    /\ Len(fatal) = 2

\* the children spawned by the watcher that are running
RunningChildren == orphans + (IF child = "running" THEN 1 ELSE 0)

\* C13 as stated: at any time at most one child spawned by the watcher is
\* running.
C13_OneChildAtATime == RunningChildren <= 1

\* C14: handling an event hands at most one message to the chat, and that
\* one is the start message, to the chat of the triggering message, sent for
\* a trigger whose child was spawned; an event that matches nothing, fails
\* in the filter or fails to launch sends nothing, and a timeout or a
\* completion adds no message.
C14_OnlyStartMessage ==
    /\ Len(hist.sent) <= 1
    /\ hist.sends = Len(hist.sent)
    /\ \A i \in DOMAIN hist.sent :
          /\ hist.sent[i].chat = msg.chat_id
          /\ hist.sent[i].text =
                <<"Executing update script triggered by message ",
                  IF msg.message_id = PyNone THEN "None" ELSE msg.message_id>>
          /\ hist.matched
          /\ hist.spawns = 1
    /\ hist.outcome \in {"ignored", "nomatch", "escaped"} => hist.sent = <<>>
    /\ hist.exc = "OSError" => hist.sent = <<>>

\* C14 witness: a trigger that timed out, with the start message as the only
\* message.
C14_Witness == hist.outcome = "timeout" /\ Len(hist.sent) = 1

\* C15: the notifier called with an empty chat id (or None) hands nothing to
\* the transport and raises nothing: _run_script goes on to the wait.
C15_EmptyChatIdNoSend ==
    (msg.kind = "message" /\ msg.chat_id \in {"", PyNone})
        => /\ hist.sends = 0
           /\ hist.sent = <<>>
           /\ hist.sendResult = "none"
           /\ hist.exc # "TransportError"
           /\ hist.notifies = 1
                 => WaitBegun \/ hist.outcome \in {"result", "timeout"}

\* C15 witness: the notifier was called with the empty chat id and the wait
\* has begun without a send.
C15_Witness ==
    /\ msg.chat_id = ""
    /\ hist.notifies = 1
    /\ hist.sends = 0
    /\ pc = "waiting"

\* C16 as stated: whenever _run_script has handed control back after the
\* spawn, the child has exited or has been killed.
C16_ChildGoneAtReturn ==
    (pc = "idle" /\ hist.spawns = 1) => child \in {"exited", "killed"}

\* C17 as stated: every _run_script call ends, so the handler returns (unless
\* a signal ends the watcher first).
C17_RunScriptTerminates == (pc # "idle") ~> (pc = "idle" \/ watcher # "serving")

\* C18: os.environ of the watcher never changes, and what a child inherits
\* is os.environ as it was at startup, with the five TRIGGER_* keys taken
\* from its own trigger.
C18_EnvIsACopy ==
    /\ hostEnv = HostEnv0
    /\ hist.spawns = 1
          => /\ DOMAIN childEnv = DOMAIN HostEnv0 \cup TriggerKeys
             /\ \A k \in DOMAIN childEnv :
                   childEnv[k] = IF k \in TriggerKeys
                                 THEN ExpectedVar(trigger, k)
                                 ELSE HostEnv0[k]

\* C18 witness: a child is launched while the child of an earlier trigger is
\* still running, and os.environ is as at startup.
C18_Witness ==
    /\ hist.spawns = 1
    /\ orphans = 1
    /\ child = "running"
    /\ hostEnv = HostEnv0

\* C19: a launch is tried once; when it fails there is no child, the start
\* callback and the notifier are not called, nothing is sent, and the
\* handler has logged the failure and returned.
C19_LaunchFailure ==
    /\ hist.launches <= 1
    /\ hist.exc = "OSError"
          => /\ child = "none"
             /\ hist.spawns = 0
             /\ hist.launches = 1
             /\ hist.started = 0
             /\ hist.notifies = 0
             /\ hist.sent = <<>>
             /\ hist.outcome = "failed"
             /\ hist.failures = 1
             /\ "ERROR:failed" \in hist.logs
             /\ pc = "idle"

\* C19 witness: the launch failed once and the handler logged it.
C19_Witness ==
    /\ hist.exc = "OSError"
    /\ hist.launches = 1
    /\ "ERROR:failed" \in hist.logs
    /\ watcher = "serving"

\* C20 as stated: once a signal has made the watcher exit, no child spawned
\* by the watcher is running.
C20_NoChildAfterExit == watcher = "exited" => RunningChildren = 0

====
